---- MODULE Spec2Model ----
(***************************************************************************)
(* Resolution engine of mewmew/l-tm package asm: translation of a parsed   *)
(* LLVM IR module (AST) into the linked IR object graph.                   *)
(*                                                                         *)
(*   resolveTypeDefs  index -> skeleton (newIRType) -> fill                *)
(*                    (astToIRTypeDef) -> assembly of m.TypeDefs           *)
(*   resolveGlobals   index -> skeleton (newGlobal) -> fill                *)
(*                    (astToIRGlobal) -> assembly of m.Globals, m.Funcs    *)
(*   irBasicBlock     lookup of a label in the local table of a function   *)
(*                                                                         *)
(* Go pointers are node identifiers: a named IR type is an index into      *)
(* heap, a global or function an index into gheap.  A `range` over a Go   *)
(* map visits every key once in an unspecified order: one action per       *)
(* iteration, the key chosen with \E among the keys not yet visited.       *)
(***************************************************************************)
EXTENDS Naturals, Sequences, FiniteSets, TLC

VARIABLES
    module,      \* the AST: sequence of top-level entities (read only)
    pc,          \* position of the translation
    err,         \* the error returned, or the value a panic carries
    index,       \* resolveTypeDefs: index (type name -> AST type)
    order,       \* resolveTypeDefs: order (first occurrences)
    heap,        \* the types.Type nodes allocated by newIRType
    ts,          \* gen.ts (type name -> node)
    fillLog,     \* type names handed to astToIRTypeDef by the fill loop
    TypeDefs,    \* gen.m.TypeDefs
    gindex,      \* resolveGlobals: index (global name -> AST entity)
    globalOrder, \* resolveGlobals: globalOrder
    funcOrder,   \* resolveGlobals: funcOrder
    gheap,       \* the ir.Global and ir.Function values allocated by newGlobal
    gs,          \* gen.gs (global name -> value)
    gfillLog,    \* global names handed to astToIRGlobal by the fill loop
    Globals,     \* gen.m.Globals
    Funcs,       \* gen.m.Funcs
    ls,          \* fgen.ls of the function whose body is resolved
    lret,        \* what the last call of irBasicBlock returned
    tret         \* the table resolveTypeDefs or resolveGlobals returned last

vars == <<module, pc, err, index, order, heap, ts, fillLog, TypeDefs,
          gindex, globalOrder, funcOrder, gheap, gs, gfillLog, Globals, Funcs,
          ls, lret, tret>>

typeVars == <<index, order, heap, ts, fillLog, TypeDefs>>
globalVars == <<gindex, globalOrder, funcOrder, gheap, gs, gfillLog, Globals, Funcs>>
localVars == <<ls, lret>>

(***************************************************************************)
(* Bounds of the explored inputs.                                          *)
(***************************************************************************)
\* Largest number of top-level entities of a module.
MaxEntities == 3

\* Type names a module may define, and type names it may refer to ("c" is
\* never defined: a reference to it is a reference to a missing type).
TypeAliases == {"a", "b"}
TypeNames == {"a", "b", "c"}
\* The order sort.Strings puts these names in.
SortedTypeNames == <<"a", "b", "c">>

(***************************************************************************)
(* AST types (package ast).  NilNode is the nil ast.LlvmNode.              *)
(***************************************************************************)
NilNode == [k |-> "nil"]
astOpaqueType == [k |-> "OpaqueType"]
astIntType == [k |-> "IntType", bits |-> 32]
astNamedType(n) == [k |-> "NamedType", name |-> n]
astPointerType(e) == [k |-> "PointerType", elem |-> e]
astStructType(fs) == [k |-> "StructType", fields |-> fs]
astPackedStructType(fs) == [k |-> "PackedStructType", fields |-> fs]
astFuncType(r, ps) == [k |-> "FuncType", ret |-> r, params |-> ps]
astTypeDef(alias, typ) == [kind |-> "TypeDef", alias |-> alias, typ |-> typ]

\* The bodies of the type definitions explored.
TypeBodies ==
    {astOpaqueType, astIntType}
    \cup {astNamedType(n) : n \in TypeNames}
    \cup {astStructType(<<astPointerType(astNamedType(n))>>) : n \in TypeAliases}
    \cup {astStructType(<<astIntType, astNamedType("c")>>),
          astPackedStructType(<<astIntType, astNamedType("b")>>),
          astFuncType(astIntType, <<astNamedType("a"), astIntType>>)}

TypeDefEntities == {astTypeDef(n, t) : n \in TypeAliases, t \in TypeBodies}

ModulesOver(E, n) == UNION {[1..k -> E] : k \in 0..n}

(***************************************************************************)
(* IR types (package types).  A named type is referred to by Ref(id), the  *)
(* pointer to node heap[id]; a type built inline is the value itself.      *)
(***************************************************************************)
NilType == [k |-> "nil"]
Ref(id) == [k |-> "ref", id |-> id]
irNew(kind, alias) ==
    [k |-> kind, Alias |-> alias, Fields |-> <<>>, Params |-> <<>>,
     ElemType |-> NilType, RetType |-> NilType, Opaque |-> FALSE,
     Packed |-> FALSE, BitSize |-> 0, AddrSpace |-> 0]

(***************************************************************************)
(* Errors.  text(n) is modelled by the node n itself.                      *)
(***************************************************************************)
NoErr == [e |-> "nil"]
DuplicateTypeError(alias, prev, new) ==
    [e |-> "duplicate_type", name |-> alias, prev |-> prev, new |-> new]
CyclicTypeError(names) == [e |-> "cyclic", names |-> names]
UnresolvedTypeError(alias) == [e |-> "unresolved_type", name |-> alias]
PanicValue(msg) == [e |-> "panic", msg |-> msg]

\* What resolveTypeDefs and resolveGlobals return beside the error: nothing
\* yet, the nil map, or the table gen.ts / gen.gs.
NotReturned == [k |-> "none"]
NilTable == [k |-> "nil"]
tableValue(tbl) == [k |-> "table", table |-> tbl]

\* Mutant: the table built so far is returned along with the error.
returnTableOnError(tbl) == tableValue(tbl)

\* `return nil, errors.WithStack(err)`, where tbl is the table built so far.
returnOnError(tbl) == NilTable

\* Update of a Go map.
MapSet(m, key, v) == (key :> v) @@ m
EmptyMap == <<>>

\* Position after a `range` loop over keys of which done are visited.
afterLoop(keys, done, loopPc, nextPc) == IF done = keys THEN nextPc ELSE loopPc

\* `v := ...` followed by the statements F that use v.
With(v, F(_)) == F(v)

(***************************************************************************)
(* resolveTypeDefs: index loop.                                            *)
(***************************************************************************)
\* Mutant: every type definition is recorded, not only the first of a name.
recordTypeOrderEveryDef(ord, added, alias) == Append(ord, alias)

\* `if !added[alias] { order = append(order, alias) }`
recordTypeOrder(ord, added, alias) ==
    IF alias \notin added THEN Append(ord, alias) ELSE ord

\* Mutant: a repeated type name is a conflict also after an opaque definition.
typeDefConflictAlways(idx, alias) == alias \in DOMAIN idx

\* `if prev, ok := index[alias]; ok { if _, ok := prev.(*ast.OpaqueType); !ok`
typeDefConflict(idx, alias) ==
    alias \in DOMAIN idx /\ idx[alias].k # "OpaqueType"

\* The loop over module.TopLevelEntities(), from entity i on.
RECURSIVE indexTypeDefs(_, _, _, _, _)
indexTypeDefs(entities, i, idx, added, ord) ==
    IF i > Len(entities)
    THEN [err |-> NoErr, index |-> idx, order |-> ord]
    ELSE LET entity == entities[i] IN
         IF entity.kind # "TypeDef"
         THEN indexTypeDefs(entities, i + 1, idx, added, ord)
         ELSE LET alias == entity.alias
                  ord2 == recordTypeOrder(ord, added, alias)
                  typ == entity.typ
              IN IF typeDefConflict(idx, alias)
                 THEN [err |-> DuplicateTypeError(alias, idx[alias], typ),
                       index |-> idx, order |-> ord2]
                 ELSE indexTypeDefs(entities, i + 1, MapSet(idx, alias, typ),
                                    added \cup {alias}, ord2)

(***************************************************************************)
(* newIRType: the skeleton of a type definition.                           *)
(***************************************************************************)
\* sort.Strings over the keys of track.
sortStrings(names) == SelectSeq(SortedTypeNames, LAMBDA n : n \in names)

\* `newTyp := index[newAlias]`: the nil node when the key is absent.
indexLookup(idx, alias) == IF alias \in DOMAIN idx THEN idx[alias] ELSE NilNode

\* Mutant: an opaque definition gets a skeleton of a kind of its own, not a
\* struct.
skeletonKindOpaque(old) ==
    CASE old.k = "OpaqueType" -> "OpaqueType"
      [] old.k = "StructType" -> "StructType"
      [] old.k = "PackedStructType" -> "StructType"
      [] old.k = "IntType" -> "IntType"
      [] old.k = "PointerType" -> "PointerType"
      [] old.k = "FuncType" -> "FuncType"
      [] OTHER -> "unsupported"

\* The IR kind newIRType allocates for an AST kind other than NamedType.
skeletonKind(old) ==
    CASE old.k = "OpaqueType" -> "StructType"
      [] old.k = "StructType" -> "StructType"
      [] old.k = "PackedStructType" -> "StructType"
      [] old.k = "IntType" -> "IntType"
      [] old.k = "PointerType" -> "PointerType"
      [] old.k = "FuncType" -> "FuncType"
      [] OTHER -> "unsupported"

RECURSIVE newIRType(_, _, _, _)
newIRType(alias, old, idx, track) ==
    IF old.k = "NamedType"
    THEN IF alias \in track
         THEN [tag |-> "error", err |-> CyclicTypeError(sortStrings(track))]
         ELSE newIRType(old.name, indexLookup(idx, old.name), idx,
                        track \cup {alias})
    ELSE IF skeletonKind(old) = "unsupported"
         THEN [tag |-> "panic",
               err |-> PanicValue("support for type not yet implemented")]
         ELSE [tag |-> "ok", t |-> irNew(skeletonKind(old), alias)]

(***************************************************************************)
(* astToIRTypeDef and the astToIR<Kind>Type functions it dispatches to.    *)
(* t is the node to populate (NilType for `t == nil`).  The result holds   *)
(* the value returned (ret) and t as the call leaves it (self): a node is  *)
(* mutated in place, also by a call that ends in an error.                 *)
(***************************************************************************)
typeOk(v) == [tag |-> "ok", ret |-> v, self |-> v, err |-> NoErr]
typeFail(tag, self, e) == [tag |-> tag, ret |-> NilType, self |-> self, err |-> e]
invalidIRType(t) == typeFail("panic", t, PanicValue("invalid IR type"))

\* `typ, ok := t.(*types.K); if t == nil { typ = &types.K{} } else if !ok { panic }`
expectKind(t, kind) == IF t = NilType THEN irNew(kind, "") ELSE t

\* Mutant: the lookup uses a key gen.ts does not have (the name with its
\* '%' prefix), so it never finds the type.
astToIRNamedTypeWrongKey(t, old, tbl) ==
    [tag |-> "error", ret |-> NilType, self |-> t,
     err |-> [e |-> "unresolved_type", name |-> old.name]]

\* Mutant: the lookup returns a copy of the named type, a new struct with the
\* alias, where the code returns the table's node.
astToIRNamedTypeCopy(t, old, tbl) ==
    IF old.name \in DOMAIN tbl
    THEN [tag |-> "ok", ret |-> irNew("StructType", old.name), self |-> t,
          err |-> NoErr]
    ELSE typeFail("error", t, UnresolvedTypeError(old.name))

\* astToIRNamedType: the lookup in gen.ts; t is left alone.
astToIRNamedType(t, old, tbl) ==
    IF old.name \in DOMAIN tbl
    THEN [tag |-> "ok", ret |-> Ref(tbl[old.name]), self |-> t, err |-> NoErr]
    ELSE typeFail("error", t, UnresolvedTypeError(old.name))

RECURSIVE astToIRTypeDef(_, _, _)
RECURSIVE irTypeList(_, _, _, _)

\* gen.irType
irType(old, tbl) == astToIRTypeDef(NilType, old, tbl)

\* Mutant: each resolved type is put in front of the ones resolved before it.
RECURSIVE irTypeListNewestFirst(_, _, _, _)
irTypeListNewestFirst(olds, i, tbl, acc) ==
    IF i > Len(olds)
    THEN [tag |-> "ok", vs |-> acc, err |-> NoErr]
    ELSE With(irType(olds[i], tbl), LAMBDA r :
            IF r.tag # "ok"
            THEN [tag |-> r.tag, vs |-> acc, err |-> r.err]
            ELSE irTypeListNewestFirst(olds, i + 1, tbl, <<r.ret>> \o acc))

\* `for _, f := range olds { field, err := gen.irType(f); ...; append }`:
\* the types appended to acc before the first error.
irTypeList(olds, i, tbl, acc) ==
    IF i > Len(olds)
    THEN [tag |-> "ok", vs |-> acc, err |-> NoErr]
    ELSE With(irType(olds[i], tbl), LAMBDA r :
            IF r.tag # "ok"
            THEN [tag |-> r.tag, vs |-> acc, err |-> r.err]
            ELSE irTypeList(olds, i + 1, tbl, Append(acc, r.ret)))

astToIROpaqueType(t, old) ==
    IF t = NilType
    THEN typeFail("panic", t, PanicValue("invalid use of opaque type"))
    ELSE IF t.k # "StructType" THEN invalidIRType(t)
    ELSE typeOk([t EXCEPT !.Opaque = TRUE])

astToIRIntType(t, old) ==
    With(expectKind(t, "IntType"), LAMBDA typ :
        IF typ.k # "IntType" THEN invalidIRType(t)
        ELSE typeOk([typ EXCEPT !.BitSize = old.bits]))

astToIRPointerType(t, old, tbl) ==
    With(expectKind(t, "PointerType"), LAMBDA typ :
        IF typ.k # "PointerType" THEN invalidIRType(t)
        ELSE With(irType(old.elem, tbl), LAMBDA e :
                IF e.tag # "ok" THEN typeFail(e.tag, typ, e.err)
                ELSE typeOk([typ EXCEPT !.ElemType = e.ret])))

\* `typ.Packed = true` of astToIRPackedStructType.
setPacked(typ, packed) == IF packed THEN [typ EXCEPT !.Packed = TRUE] ELSE typ

\* astToIRStructType (packed = FALSE) and astToIRPackedStructType (TRUE).
astToIRStructType(t, old, tbl, packed) ==
    With(setPacked(expectKind(t, "StructType"), packed), LAMBDA typ :
        IF typ.k # "StructType" THEN invalidIRType(t)
        ELSE With(irTypeList(old.fields, 1, tbl, typ.Fields), LAMBDA fs :
                IF fs.tag # "ok"
                THEN typeFail(fs.tag, [typ EXCEPT !.Fields = fs.vs], fs.err)
                ELSE typeOk([typ EXCEPT !.Fields = fs.vs, !.Opaque = FALSE])))

astToIRFuncType(t, old, tbl) ==
    With(expectKind(t, "FuncType"), LAMBDA typ :
        IF typ.k # "FuncType" THEN invalidIRType(t)
        ELSE With(irType(old.ret, tbl), LAMBDA r :
                IF r.tag # "ok" THEN typeFail(r.tag, typ, r.err)
                ELSE With(irTypeList(old.params, 1, tbl, typ.Params), LAMBDA ps :
                        IF ps.tag # "ok"
                        THEN typeFail(ps.tag, [typ EXCEPT !.RetType = r.ret,
                                                          !.Params = ps.vs], ps.err)
                        ELSE typeOk([typ EXCEPT !.RetType = r.ret,
                                                !.Params = ps.vs]))))

astToIRTypeDef(t, old, tbl) ==
    CASE old.k = "OpaqueType" -> astToIROpaqueType(t, old)
      [] old.k = "IntType" -> astToIRIntType(t, old)
      [] old.k = "NamedType" -> astToIRNamedType(t, old, tbl)
      [] old.k = "PointerType" -> astToIRPointerType(t, old, tbl)
      [] old.k = "StructType" -> astToIRStructType(t, old, tbl, FALSE)
      [] old.k = "PackedStructType" -> astToIRStructType(t, old, tbl, TRUE)
      [] old.k = "FuncType" -> astToIRFuncType(t, old, tbl)
      [] OTHER -> typeFail("panic", t,
                           PanicValue("support for type not yet implemented"))

\* Position reached when fn ("ts": resolveTypeDefs, "gs": resolveGlobals)
\* returns an error, or panics.
stopPc(fn, tag) ==
    IF tag = "panic" THEN (IF fn = "ts" THEN "ts_panic" ELSE "gs_panic")
    ELSE (IF fn = "ts" THEN "ts_failed" ELSE "gs_failed")

Range(seq) == {seq[i] : i \in DOMAIN seq}

(***************************************************************************)
(* State after construction of the generator: nothing resolved yet.        *)
(***************************************************************************)
InitGen ==
    /\ pc = "resolveTypeDefs"
    /\ err = NoErr
    /\ index = EmptyMap /\ order = <<>> /\ heap = <<>> /\ ts = EmptyMap
    /\ fillLog = <<>> /\ TypeDefs = <<>>
    /\ gindex = EmptyMap /\ globalOrder = <<>> /\ funcOrder = <<>>
    /\ gheap = <<>> /\ gs = EmptyMap /\ gfillLog = <<>>
    /\ Globals = <<>> /\ Funcs = <<>>
    /\ ls = EmptyMap /\ lret = <<>>
    /\ tret = NotReturned

(***************************************************************************)
(* resolveTypeDefs, one action per loop iteration.                         *)
(***************************************************************************)
\* Lines 18-54: the index loop, then `gen.ts = make(...)`.
IndexTypeDefs ==
    /\ pc = "resolveTypeDefs"
    /\ With(indexTypeDefs(module, 1, EmptyMap, {}, <<>>), LAMBDA r :
        /\ index' = r.index
        /\ order' = r.order
        /\ err' = r.err
        /\ tret' = IF r.err # NoErr THEN returnOnError(EmptyMap) ELSE tret
        /\ pc' = IF r.err # NoErr THEN stopPc("ts", "error")
                 ELSE afterLoop(DOMAIN r.index, {}, "ts_skeleton", "ts_assemble"))
    /\ ts' = EmptyMap
    /\ UNCHANGED <<module, heap, fillLog, TypeDefs, globalVars, localVars>>

\* The keys the skeleton loop has not visited yet.
skeletonPending(idx, tbl) == DOMAIN idx \ DOMAIN tbl

\* Mutant: one pass; each iteration creates the skeleton and populates it at
\* once, against the table built so far.
SkeletonTypeAndFill(alias) ==
    /\ pc = "ts_skeleton"
    /\ alias \in skeletonPending(index, ts)
    /\ With(newIRType(alias, index[alias], index, {}), LAMBDA r :
        IF r.tag = "ok"
        THEN With(astToIRTypeDef(r.t, index[alias],
                                 MapSet(ts, alias, Len(heap) + 1)), LAMBDA f :
                /\ heap' = Append(heap, f.self)
                /\ ts' = MapSet(ts, alias, Len(heap) + 1)
                /\ fillLog' = Append(fillLog, alias)
                /\ err' = f.err
                /\ tret' = IF f.tag = "error" THEN returnOnError(ts) ELSE tret
                /\ pc' = IF f.tag # "ok" THEN stopPc("ts", f.tag)
                         ELSE afterLoop(DOMAIN index, DOMAIN ts \cup {alias},
                                        "ts_skeleton", "ts_assemble"))
        ELSE /\ pc' = stopPc("ts", r.tag)
             /\ err' = r.err
             /\ tret' = IF r.tag = "error" THEN returnOnError(ts) ELSE tret
             /\ UNCHANGED <<heap, ts, fillLog>>)
    /\ UNCHANGED <<module, index, order, TypeDefs, globalVars, localVars>>

\* Lines 55-63: one iteration of `for alias, old := range index`.
SkeletonType(alias) ==
    /\ pc = "ts_skeleton"
    /\ alias \in skeletonPending(index, ts)
    /\ With(newIRType(alias, index[alias], index, {}), LAMBDA r :
        IF r.tag = "ok"
        THEN /\ heap' = Append(heap, r.t)
             /\ ts' = MapSet(ts, alias, Len(heap) + 1)
             /\ pc' = afterLoop(DOMAIN index, DOMAIN ts \cup {alias},
                                "ts_skeleton", "ts_fill")
             /\ err' = err
             /\ tret' = tret
        ELSE /\ pc' = stopPc("ts", r.tag)
             /\ err' = r.err
             /\ tret' = IF r.tag = "error" THEN returnOnError(ts) ELSE tret
             /\ UNCHANGED <<heap, ts>>)
    /\ UNCHANGED <<module, index, order, fillLog, TypeDefs, globalVars, localVars>>

\* Mutant: the fill loop does not skip the names it has filled.
fillPendingAny(idx, log) == DOMAIN idx

\* The keys the fill loop has not visited yet.
fillPending(idx, log) == DOMAIN idx \ Range(log)

\* Lines 66-72: one iteration of the fill loop; the node gen.ts[alias] is
\* populated in place, the value returned is dropped.
FillType(alias) ==
    /\ pc = "ts_fill"
    /\ alias \in fillPending(index, fillLog)
    /\ With(astToIRTypeDef(heap[ts[alias]], index[alias], ts), LAMBDA r :
        /\ heap' = [heap EXCEPT ![ts[alias]] = r.self]
        /\ fillLog' = Append(fillLog, alias)
        /\ err' = r.err
        /\ tret' = IF r.tag = "error" THEN returnOnError(ts) ELSE tret
        /\ pc' = IF r.tag # "ok" THEN stopPc("ts", r.tag)
                 ELSE afterLoop(DOMAIN index, Range(fillLog) \cup {alias},
                                "ts_fill", "ts_assemble"))
    /\ UNCHANGED <<module, index, order, ts, TypeDefs, globalVars, localVars>>

\* Lines 75-78: `for _, key := range order { append(gen.m.TypeDefs, gen.ts[key]) }`
assembleTypeDefs(defs, ord, tbl) ==
    defs \o [i \in 1..Len(ord) |-> tbl[ord[i]]]

AssembleTypeDefs ==
    /\ pc = "ts_assemble"
    /\ TypeDefs' = assembleTypeDefs(TypeDefs, order, ts)
    /\ pc' = "ts_done"
    /\ tret' = tableValue(ts)
    /\ UNCHANGED <<module, err, index, order, heap, ts, fillLog, globalVars, localVars>>

NextT ==
    \/ IndexTypeDefs
    \/ \E alias \in TypeAliases : SkeletonType(alias)
    \/ \E alias \in TypeAliases : FillType(alias)
    \/ AssembleTypeDefs

InitT == module \in ModulesOver(TypeDefEntities, MaxEntities) /\ InitGen

\* The type resolver on modules of type definitions.
SpecT == InitT /\ [][NextT]_vars

(***************************************************************************)
(* AST of global variables and functions.  A constant is an integer        *)
(* literal or the name of a global; a function body is a sequence of basic *)
(* blocks, each with the instructions' result names, the callee of its     *)
(* call ("" for none) and the label its terminator branches to ("" for     *)
(* ret).                                                                   *)
(***************************************************************************)
astGlobalDecl(n, ct, as) ==
    [kind |-> "GlobalDecl", name |-> n, contentType |-> ct, addrSpace |-> as,
     linkage |-> "external"]
astGlobalDef(n, ct, as, init) ==
    [kind |-> "GlobalDef", name |-> n, contentType |-> ct, addrSpace |-> as,
     linkage |-> "internal", init |-> init]
astParam(typ, n) == [typ |-> typ, name |-> n]
astFuncHeader(n, ret, params) ==
    [name |-> n, ret |-> ret, params |-> params, addrSpace |-> 0,
     linkage |-> "external"]
astFuncDecl(n, ret, params) ==
    [kind |-> "FuncDecl", name |-> n, header |-> astFuncHeader(n, ret, params)]
astFuncDef(n, ret, params, body) ==
    [kind |-> "FuncDef", name |-> n, header |-> astFuncHeader(n, ret, params),
     body |-> body]
astIntConst == [k |-> "IntConst"]
astGlobalIdent(n) == [k |-> "GlobalIdent", name |-> n]
astBasicBlock(label, results, callee, target) ==
    [name |-> label, results |-> results, callee |-> callee, target |-> target]

\* Names of the global variables and functions explored; initializers and
\* calls name @f or @g.
GlobalNames == {"f", "g", "h"}
ReferredGlobals == {"f", "g"}

(***************************************************************************)
(* IR global variables and functions (package ir).                         *)
(***************************************************************************)
NilConst == [k |-> "nil"]
GRef(id) == [k |-> "gref", id |-> id]
\* types.NewPointer
NewPointer(elem) == [irNew("PointerType", "") EXCEPT !.ElemType = elem]
irGlobal(name) ==
    [k |-> "Global", GlobalName |-> name, ContentType |-> NilType,
     Typ |-> NilType, Linkage |-> "", Init |-> NilConst]
irFunction(name) ==
    [k |-> "Function", GlobalName |-> name, Sig |-> NilType, Typ |-> NilType,
     Linkage |-> "", Params |-> <<>>, Blocks |-> <<>>]
\* ir.NewParam
NewParam(typ, name) == [k |-> "Param", Typ |-> typ, LocalName |-> name]

DuplicateGlobalError(name, prev, new) ==
    [e |-> "duplicate_global", name |-> name, prev |-> prev, new |-> new]
UnresolvedGlobalError(name) == [e |-> "unresolved_global", name |-> name]
UnresolvedLocalError(name) == [e |-> "unresolved_local", name |-> name]
LocalKindMismatchError(v) == [e |-> "invalid_basic_block_type", got |-> v.k]

(***************************************************************************)
(* resolveGlobals: index loop.                                             *)
(***************************************************************************)
isGlobalEntity(entity) == entity.kind \in {"GlobalDecl", "GlobalDef"}
isFuncEntity(entity) == entity.kind \in {"FuncDecl", "FuncDef"}

\* Mutant: no error when the previous entity is a declaration (the TODO of
\* resolveGlobals carried out).
globalConflictUnlessDecl(idx, name) ==
    name \in DOMAIN idx /\ idx[name].kind \notin {"GlobalDecl", "FuncDecl"}

\* `if prev, ok := index[name]; ok { return nil, errors.Errorf(...) }`
globalConflict(idx, name) == name \in DOMAIN idx

\* `globalOrder = append(globalOrder, name)` / `funcOrder = append(...)`
recordGlobalOrder(ord, entity) ==
    IF isGlobalEntity(entity) THEN Append(ord, entity.name) ELSE ord
\* Mutant: the function order is kept most recent first, which puts a callee
\* defined later before its caller.
recordFuncOrderNewestFirst(ord, entity) ==
    IF isFuncEntity(entity) THEN <<entity.name>> \o ord ELSE ord
recordFuncOrder(ord, entity) ==
    IF isFuncEntity(entity) THEN Append(ord, entity.name) ELSE ord

RECURSIVE indexGlobals(_, _, _, _, _)
indexGlobals(entities, i, idx, gord, ford) ==
    IF i > Len(entities)
    THEN [err |-> NoErr, index |-> idx, globalOrder |-> gord, funcOrder |-> ford]
    ELSE LET entity == entities[i] IN
         IF ~(isGlobalEntity(entity) \/ isFuncEntity(entity))
         THEN indexGlobals(entities, i + 1, idx, gord, ford)
         ELSE LET name == entity.name
                  gord2 == recordGlobalOrder(gord, entity)
                  ford2 == recordFuncOrder(ford, entity)
              IN IF globalConflict(idx, name)
                 THEN [err |-> DuplicateGlobalError(name, idx[name], entity),
                       index |-> idx, globalOrder |-> gord2, funcOrder |-> ford2]
                 ELSE indexGlobals(entities, i + 1, MapSet(idx, name, entity),
                                   gord2, ford2)

(***************************************************************************)
(* newGlobal: the skeleton of a global variable or function, with its type.*)
(***************************************************************************)
paramTypes(params) == [i \in 1..Len(params) |-> params[i].typ]
globalFail(tag, e) == [tag |-> tag, g |-> NilConst, err |-> e]

\* Cases *ast.GlobalDecl and *ast.GlobalDef.
newGlobalVar(name, old, tbl) ==
    With(irType(old.contentType, tbl), LAMBDA ct :
        IF ct.tag # "ok" THEN globalFail(ct.tag, ct.err)
        ELSE [tag |-> "ok", err |-> NoErr,
              g |-> [irGlobal(name) EXCEPT !.ContentType = ct.ret,
                                           !.Typ = NewPointer(ct.ret)]])

\* `f.Sig = sig; f.Typ = types.NewPointer(f.Sig)`
withSig(f, sig) == [f EXCEPT !.Sig = sig, !.Typ = NewPointer(sig)]

\* Cases *ast.FuncDecl and *ast.FuncDef.
newFunction(name, old, tbl) ==
    With(irType(old.header.ret, tbl), LAMBDA r :
        IF r.tag # "ok" THEN globalFail(r.tag, r.err)
        ELSE With(irTypeList(paramTypes(old.header.params), 1, tbl, <<>>), LAMBDA ps :
                IF ps.tag # "ok" THEN globalFail(ps.tag, ps.err)
                ELSE [tag |-> "ok", err |-> NoErr,
                      g |-> withSig(irFunction(name),
                                    [irNew("FuncType", "") EXCEPT !.RetType = r.ret,
                                                                  !.Params = ps.vs])]))

newGlobal(name, old, tbl) ==
    IF isGlobalEntity(old) THEN newGlobalVar(name, old, tbl)
    ELSE IF isFuncEntity(old) THEN newFunction(name, old, tbl)
    ELSE globalFail("panic",
            PanicValue("support for global variable or function not yet implemented"))

(***************************************************************************)
(* The function body resolver.  irBasicBlock is asm/basic_block.go; the    *)
(* rest of funcGen is described by the specification, section 4.4: the     *)
(* local table is seeded with the parameters, every basic block is         *)
(* registered, then the instruction results, and only then operands are    *)
(* resolved, block by block, stopping at the first error.                  *)
(***************************************************************************)
NilLocal == [k |-> "nil"]
localParam(i, name) == [k |-> "Param", LocalName |-> name, pos |-> <<i>>]
localBlock(i, name) == [k |-> "BasicBlock", LocalName |-> name, pos |-> <<i>>]
localInst(i, j, name) == [k |-> "Inst", LocalName |-> name, pos |-> <<i, j>>]

\* Mutant: the type assertion `v.(*ir.BasicBlock)` is left out; whatever is
\* bound to the name is returned.
irBasicBlockUnchecked(tbl, name) ==
    IF name \notin DOMAIN tbl
    THEN [block |-> NilLocal, err |-> UnresolvedLocalError(name), ls |-> tbl]
    ELSE [block |-> tbl[name], err |-> NoErr, ls |-> tbl]

\* funcGen.irBasicBlock: the block returned, the error, and fgen.ls after
\* the call.
irBasicBlock(tbl, name) ==
    IF name \notin DOMAIN tbl
    THEN [block |-> NilLocal, err |-> UnresolvedLocalError(name), ls |-> tbl]
    ELSE IF tbl[name].k # "BasicBlock"
         THEN [block |-> NilLocal, err |-> LocalKindMismatchError(tbl[name]),
               ls |-> tbl]
         ELSE [block |-> tbl[name], err |-> NoErr, ls |-> tbl]

\* newFuncGen: the table of the named parameters.
newFuncGen(params) ==
    [n \in {params[i].name : i \in DOMAIN params} \ {""} |->
        localParam(CHOOSE i \in DOMAIN params : params[i].name = n, n)]

\* Registration of every basic block of the body.
registerBlocks(tbl, body) ==
    [n \in {body[i].name : i \in DOMAIN body} |->
        localBlock(CHOOSE i \in DOMAIN body : body[i].name = n, n)] @@ tbl

\* Positions <<block, instruction>> of the instruction results of the body.
resultPositions(body) ==
    UNION {{<<i, j>> : j \in DOMAIN body[i].results} : i \in DOMAIN body}

\* Registration of every instruction result of the body.
registerResults(tbl, body) ==
    [n \in {body[p[1]].results[p[2]] : p \in resultPositions(body)} |->
        With(CHOOSE q \in resultPositions(body) : body[q[1]].results[q[2]] = n,
             LAMBDA p : localInst(p[1], p[2], n))] @@ tbl

\* Lookup of a global identifier in gen.gs.
irGlobalIdent(name, gtbl) ==
    IF name \in DOMAIN gtbl
    THEN [tag |-> "ok", c |-> GRef(gtbl[name]), err |-> NoErr]
    ELSE [tag |-> "error", c |-> NilConst, err |-> UnresolvedGlobalError(name)]

\* The callee of the call of block b; no call when b.callee is "".
irCallee(b, gtbl) ==
    IF b.callee = "" THEN [tag |-> "ok", c |-> NilConst, err |-> NoErr]
    ELSE irGlobalIdent(b.callee, gtbl)

irBlock(b, callee, target) ==
    [LocalName |-> b.name, Callee |-> callee, Target |-> target]
blocksResult(tag, e, blocks, tbl, calls) ==
    [tag |-> tag, err |-> e, blocks |-> blocks, ls |-> tbl, calls |-> calls]
\* One call of irBasicBlock: its argument, fgen.ls before and after it, and
\* what it returned.
callRecord(label, tbl, r) ==
    [label |-> label, before |-> tbl, after |-> r.ls, block |-> r.block,
     err |-> r.err]

\* Translation of the blocks from block i on: callee, then terminator.
RECURSIVE resolveBlocks(_, _, _, _, _, _)
resolveBlocks(body, i, tbl, gtbl, blocks, calls) ==
    IF i > Len(body)
    THEN blocksResult("ok", NoErr, blocks, tbl, calls)
    ELSE With(irCallee(body[i], gtbl), LAMBDA callee :
        IF callee.tag # "ok"
        THEN blocksResult(callee.tag, callee.err, blocks, tbl, calls)
        ELSE IF body[i].target = ""
        THEN resolveBlocks(body, i + 1, tbl, gtbl,
                           Append(blocks, irBlock(body[i], callee.c, NilLocal)), calls)
        ELSE With(irBasicBlock(tbl, body[i].target), LAMBDA r :
            IF r.err # NoErr
            THEN blocksResult("error", r.err, blocks, r.ls,
                              Append(calls, callRecord(body[i].target, tbl, r)))
            ELSE resolveBlocks(body, i + 1, r.ls, gtbl,
                               Append(blocks, irBlock(body[i], callee.c, r.block)),
                               Append(calls, callRecord(body[i].target, tbl, r)))))

\* fgen.resolveLocals
resolveLocals(params, body, gtbl) ==
    resolveBlocks(body, 1,
                  registerResults(registerBlocks(newFuncGen(params), body), body),
                  gtbl, <<>>, <<>>)

\* gen.irConstant for the initializer of a global definition.
irConstant(init, gtbl) ==
    IF init.k = "GlobalIdent" THEN irGlobalIdent(init.name, gtbl)
    ELSE [tag |-> "ok", c |-> [k |-> "Int"], err |-> NoErr]

(***************************************************************************)
(* astToIRGlobal and the functions it dispatches to.  g is the skeleton;   *)
(* self is g as the call leaves it.                                        *)
(***************************************************************************)
globalResult(tag, self, e, tbl, calls) ==
    [tag |-> tag, self |-> self, err |-> e, ls |-> tbl, calls |-> calls]
invalidIRValue(g, tbl) ==
    globalResult("panic", g, PanicValue("invalid IR type for AST global"), tbl, <<>>)

\* `global.Typ.AddrSpace = irOptAddrSpace(old.AddrSpace())`
setAddrSpace(typ, as) == [typ EXCEPT !.AddrSpace = as]

\* The attributes astToIRGlobalDecl and astToIRGlobalDef set.
globalAttrs(g, old) ==
    [g EXCEPT !.Linkage = old.linkage, !.Typ = setAddrSpace(g.Typ, old.addrSpace)]

astToIRGlobalDecl(g, old, tbl) ==
    IF g.k # "Global" THEN invalidIRValue(g, tbl)
    ELSE globalResult("ok", globalAttrs(g, old), NoErr, tbl, <<>>)

astToIRGlobalDef(g, old, gtbl, tbl) ==
    IF g.k # "Global" THEN invalidIRValue(g, tbl)
    ELSE With(irConstant(old.init, gtbl), LAMBDA init :
            IF init.tag # "ok"
            THEN globalResult(init.tag, globalAttrs(g, old), init.err, tbl, <<>>)
            ELSE globalResult("ok", [globalAttrs(g, old) EXCEPT !.Init = init.c],
                              NoErr, tbl, <<>>))

\* Mutant: each parameter is put in front of the ones translated before it.
headerParamsNewestFirst(params, vs) ==
    [i \in 1..Len(vs) |-> NewParam(vs[Len(vs) + 1 - i], params[Len(vs) + 1 - i].name)]

\* The parameters astToIRFuncHeader appends to f.Params.
headerParams(params, vs) ==
    [i \in 1..Len(vs) |-> NewParam(vs[i], params[i].name)]

astToIRFuncHeader(f, hdr, ttbl) ==
    With(irTypeList(paramTypes(hdr.params), 1, ttbl, <<>>), LAMBDA ps :
        IF ps.tag # "ok"
        THEN [tag |-> ps.tag, err |-> ps.err,
              self |-> [f EXCEPT !.Linkage = hdr.linkage,
                                 !.Params = f.Params \o headerParams(hdr.params, ps.vs)]]
        ELSE [tag |-> "ok", err |-> NoErr,
              self |-> [f EXCEPT !.Linkage = hdr.linkage,
                                 !.Params = f.Params \o headerParams(hdr.params, ps.vs),
                                 !.Typ = setAddrSpace(f.Typ, hdr.addrSpace)]])

astToIRFuncDecl(g, old, ttbl, tbl) ==
    IF g.k # "Function" THEN invalidIRValue(g, tbl)
    ELSE With(astToIRFuncHeader(g, old.header, ttbl), LAMBDA h :
            globalResult(h.tag, h.self, h.err, tbl, <<>>))

\* Mutant: the basic blocks are not registered before the operands are
\* resolved; the table holds the parameters and the instruction results.
astToIRFuncDefNoBlockSkeletons(g, old, ttbl, gtbl, tbl) ==
    IF g.k # "Function" THEN invalidIRValue(g, tbl)
    ELSE With(astToIRFuncHeader(g, old.header, ttbl), LAMBDA h :
            IF h.tag # "ok" THEN globalResult(h.tag, h.self, h.err, tbl, <<>>)
            ELSE With(resolveBlocks(old.body, 1,
                          registerResults(newFuncGen(old.header.params), old.body),
                          gtbl, <<>>, <<>>), LAMBDA r :
                    globalResult(r.tag, [h.self EXCEPT !.Blocks = r.blocks], r.err,
                                 r.ls, r.calls)))

\* Mutant: one local table for the whole module; the body is resolved
\* against the names of this function added to the table the function
\* filled before it left behind.
astToIRFuncDefSharedLocals(g, old, ttbl, gtbl, tbl) ==
    IF g.k # "Function" THEN invalidIRValue(g, tbl)
    ELSE With(astToIRFuncHeader(g, old.header, ttbl), LAMBDA h :
            IF h.tag # "ok" THEN globalResult(h.tag, h.self, h.err, tbl, <<>>)
            ELSE With(resolveBlocks(old.body, 1,
                          registerResults(
                              registerBlocks(newFuncGen(old.header.params) @@ tbl,
                                             old.body), old.body),
                          gtbl, <<>>, <<>>), LAMBDA r :
                    globalResult(r.tag, [h.self EXCEPT !.Blocks = r.blocks], r.err,
                                 r.ls, r.calls)))

astToIRFuncDef(g, old, ttbl, gtbl, tbl) ==
    IF g.k # "Function" THEN invalidIRValue(g, tbl)
    ELSE With(astToIRFuncHeader(g, old.header, ttbl), LAMBDA h :
            IF h.tag # "ok" THEN globalResult(h.tag, h.self, h.err, tbl, <<>>)
            ELSE With(resolveLocals(old.header.params, old.body, gtbl), LAMBDA r :
                    globalResult(r.tag, [h.self EXCEPT !.Blocks = r.blocks], r.err,
                                 r.ls, r.calls)))

astToIRGlobal(g, old, ttbl, gtbl, tbl) ==
    CASE old.kind = "GlobalDecl" -> astToIRGlobalDecl(g, old, tbl)
      [] old.kind = "GlobalDef" -> astToIRGlobalDef(g, old, gtbl, tbl)
      [] old.kind = "FuncDecl" -> astToIRFuncDecl(g, old, ttbl, tbl)
      [] old.kind = "FuncDef" -> astToIRFuncDef(g, old, ttbl, gtbl, tbl)
      [] OTHER -> globalResult("panic", g,
                     PanicValue("support for type not yet implemented"), tbl, <<>>)

(***************************************************************************)
(* resolveGlobals, one action per loop iteration.                          *)
(***************************************************************************)
\* Lines 16-64: the index loop, then `gen.gs = make(...)`.  It runs once
\* resolveTypeDefs has returned its table.
IndexGlobals ==
    /\ pc = "ts_done"
    /\ With(indexGlobals(module, 1, EmptyMap, <<>>, <<>>), LAMBDA r :
        /\ gindex' = r.index
        /\ globalOrder' = r.globalOrder
        /\ funcOrder' = r.funcOrder
        /\ err' = r.err
        /\ tret' = IF r.err # NoErr THEN returnOnError(EmptyMap) ELSE tret
        /\ pc' = IF r.err # NoErr THEN stopPc("gs", "error")
                 ELSE afterLoop(DOMAIN r.index, {}, "gs_skeleton", "gs_assemble"))
    /\ gs' = EmptyMap
    /\ UNCHANGED <<module, typeVars, gheap, gfillLog, Globals, Funcs, localVars>>

\* Lines 65-71: one iteration of `for name, old := range index`.
SkeletonGlobal(name) ==
    /\ pc = "gs_skeleton"
    /\ name \in skeletonPending(gindex, gs)
    /\ With(newGlobal(name, gindex[name], ts), LAMBDA r :
        IF r.tag = "ok"
        THEN /\ gheap' = Append(gheap, r.g)
             /\ gs' = MapSet(gs, name, Len(gheap) + 1)
             /\ pc' = afterLoop(DOMAIN gindex, DOMAIN gs \cup {name},
                                "gs_skeleton", "gs_fill")
             /\ err' = err
             /\ tret' = tret
        ELSE /\ pc' = stopPc("gs", r.tag)
             /\ err' = r.err
             /\ tret' = IF r.tag = "error" THEN returnOnError(gs) ELSE tret
             /\ UNCHANGED <<gheap, gs>>)
    /\ UNCHANGED <<module, typeVars, gindex, globalOrder, funcOrder, gfillLog,
                   Globals, Funcs, localVars>>

\* Lines 74-80: one iteration of the fill loop; gen.gs[name] is populated in
\* place.  ls and lret keep the local table and the irBasicBlock calls of the
\* function definition filled last.
FillGlobal(name) ==
    /\ pc = "gs_fill"
    /\ name \in fillPending(gindex, gfillLog)
    /\ With(astToIRGlobal(gheap[gs[name]], gindex[name], ts, gs, ls), LAMBDA r :
        /\ gheap' = [gheap EXCEPT ![gs[name]] = r.self]
        /\ gfillLog' = Append(gfillLog, name)
        /\ err' = r.err
        /\ tret' = IF r.tag = "error" THEN returnOnError(gs) ELSE tret
        /\ ls' = r.ls
        /\ lret' = IF gindex[name].kind = "FuncDef" THEN r.calls ELSE lret
        /\ pc' = IF r.tag # "ok" THEN stopPc("gs", r.tag)
                 ELSE afterLoop(DOMAIN gindex, Range(gfillLog) \cup {name},
                                "gs_fill", "gs_assemble"))
    /\ UNCHANGED <<module, typeVars, gindex, globalOrder, funcOrder, gs,
                   Globals, Funcs>>

\* gen.global (kind "Global") and gen.function (kind "Function"): the value
\* of that kind stored under key in gen.gs.
globalOfKind(gtbl, ghp, key, kind) ==
    IF key \in DOMAIN gtbl /\ ghp[gtbl[key]].k = kind
    THEN [tag |-> "ok", id |-> gtbl[key]]
    ELSE [tag |-> "panic", id |-> 0]

\* Lines 84-102: `for _, key := range ord { v, err := lookup; if err != nil
\* { panic(err) }; list = append(list, v) }`
RECURSIVE assembleValues(_, _, _, _, _, _)
assembleValues(list, ord, i, gtbl, ghp, kind) ==
    IF i > Len(ord) THEN [tag |-> "ok", list |-> list]
    ELSE IF globalOfKind(gtbl, ghp, ord[i], kind).tag # "ok"
         THEN [tag |-> "panic", list |-> list]
         ELSE assembleValues(Append(list, globalOfKind(gtbl, ghp, ord[i], kind).id),
                             ord, i + 1, gtbl, ghp, kind)

AssembleGlobals ==
    /\ pc = "gs_assemble"
    /\ With(assembleValues(Globals, globalOrder, 1, gs, gheap, "Global"), LAMBDA g :
       With(assembleValues(Funcs, funcOrder, 1, gs, gheap, "Function"), LAMBDA f :
        /\ Globals' = g.list
        /\ Funcs' = IF g.tag = "ok" THEN f.list ELSE Funcs
        /\ pc' = IF g.tag = "ok" /\ f.tag = "ok" THEN "gs_done"
                 ELSE stopPc("gs", "panic")
        /\ tret' = IF g.tag = "ok" /\ f.tag = "ok" THEN tableValue(gs) ELSE tret
        /\ err' = IF g.tag = "ok" /\ f.tag = "ok" THEN err
                  ELSE PanicValue("unable to locate global identifier")))
    /\ UNCHANGED <<module, typeVars, gindex, globalOrder, funcOrder, gheap, gs,
                   gfillLog, localVars>>

NextG ==
    \/ IndexTypeDefs
    \/ \E alias \in TypeAliases : SkeletonType(alias)
    \/ \E alias \in TypeAliases : FillType(alias)
    \/ AssembleTypeDefs
    \/ IndexGlobals
    \/ \E name \in GlobalNames : SkeletonGlobal(name)
    \/ \E name \in GlobalNames : FillGlobal(name)
    \/ AssembleGlobals

(***************************************************************************)
(* The modules of global variables and functions explored: the types %a    *)
(* and %b, globals and functions @f and @g whose types are i32, %a or the  *)
(* missing %c, initializers and calls that name @f or @g, and the global   *)
(* @h.                                                                     *)
(***************************************************************************)
entryBlock(callee) == <<astBasicBlock("entry", <<>>, callee, "")>>

GlobalEntities ==
    {astTypeDef("a", astStructType(<<astIntType, astPointerType(astNamedType("a"))>>)),
     astTypeDef("a", astOpaqueType),
     astTypeDef("b", astNamedType("a"))}
    \cup {astGlobalDecl(n, astNamedType("a"), 0) : n \in ReferredGlobals}
    \cup {astGlobalDecl("g", astNamedType("c"), 1)}
    \cup {astGlobalDef("g", astIntType, 1, astIntConst)}
    \cup {astGlobalDef(n, astPointerType(astNamedType("a")), 0, astGlobalIdent(m)) :
            n \in ReferredGlobals, m \in ReferredGlobals}
    \cup {astFuncDecl(n, astIntType, <<astParam(astNamedType("a"), "")>>) :
            n \in ReferredGlobals}
    \cup {astFuncDecl("g", astNamedType("c"), <<>>)}
    \cup {astFuncDef(n, astIntType, <<>>, entryBlock(m)) :
            n \in ReferredGlobals, m \in ReferredGlobals}
    \cup {astGlobalDef("h", astIntType, 0, astIntConst)}
    \cup {astFuncDef("f", astNamedType("a"),
                     <<astParam(astPointerType(astNamedType("a")), "x")>>,
                     entryBlock(""))}

InitG == module \in ModulesOver(GlobalEntities, MaxEntities) /\ InitGen

\* The whole translation on modules of globals and functions.
SpecG == InitG /\ [][NextG]_vars

(***************************************************************************)
(* The function bodies explored for the body resolver: one function @f,    *)
(* with or without the parameter %x, of up to MaxBlocks blocks named in    *)
(* order after BlockLabels; the first block may define the result %r; a    *)
(* terminator returns or branches to a block label, to %x, to %r or to     *)
(* the label of a block the body may not have.                             *)
(***************************************************************************)
MaxBlocks == 2
BlockLabels == <<"l1", "l2", "l3", "l4">>
BranchTargets == {"", "x", "r"} \cup {BlockLabels[i] : i \in 1..(MaxBlocks + 1)}

LocalBodies ==
    UNION {{[i \in 1..n |->
                astBasicBlock(BlockLabels[i], IF i = 1 THEN rs ELSE <<>>, "", tg[i])] :
             rs \in {<<>>, <<"r">>}, tg \in [1..n -> BranchTargets]} : n \in 1..MaxBlocks}

LocalFuncDefs ==
    {astFuncDef("f", astIntType, ps, body) :
        ps \in {<<>>, <<astParam(astIntType, "x")>>}, body \in LocalBodies}

InitL ==
    /\ module \in {<<astTypeDef("a", astIntType), fd>> : fd \in LocalFuncDefs}
    /\ InitGen

\* The whole translation on modules of one function definition.
SpecL == InitL /\ [][NextG]_vars

(***************************************************************************)
(* Modules of two function definitions, for the scope of local names: @f   *)
(* as above, and @g of one block, whose label no body of @f has, with or   *)
(* without the parameter %x and the result %r, whose terminator returns    *)
(* or branches to the first label of @f, to %x or to %r.  The fill loop     *)
(* visits the two in either order.                                         *)
(***************************************************************************)
OtherLabel == BlockLabels[MaxBlocks + 1]
OtherTargets == {"", BlockLabels[1], "x", "r"}

OtherFuncDefs ==
    {astFuncDef("g", astIntType, ps, <<astBasicBlock(OtherLabel, rs, "", tg)>>) :
        ps \in {<<>>, <<astParam(astIntType, "x")>>},
        rs \in {<<>>, <<"r">>}, tg \in OtherTargets}

InitS ==
    /\ module \in {<<astTypeDef("a", astIntType), fd, gd>> :
                      fd \in LocalFuncDefs, gd \in OtherFuncDefs}
    /\ InitGen

\* The whole translation on modules of two function definitions.
SpecS == InitS /\ [][NextG]_vars

(***************************************************************************)
(* Modules of functions with parameters, for the parameter lists: the type *)
(* %a, then a declaration or definition of @f and possibly one of @g, each *)
(* with up to MaxParams parameters of type i32, %a or %a*; the parameters  *)
(* are named after ParamNames by position ("" is an unnamed parameter).    *)
(***************************************************************************)
MaxParams == 2
ParamNames == <<"x", "", "y", "z">>
ParamTypes == {astIntType, astNamedType("a"), astPointerType(astNamedType("a"))}

ParamLists ==
    UNION {{[i \in 1..k |-> astParam(t[i], ParamNames[i])] : t \in [1..k -> ParamTypes]} :
             k \in 0..MaxParams}

ParamFuncs(n) ==
    {astFuncDecl(n, astIntType, ps) : ps \in ParamLists}
    \cup {astFuncDef(n, astIntType, ps, entryBlock("")) : ps \in ParamLists}

ParamTypeDef ==
    astTypeDef("a", astStructType(<<astIntType, astPointerType(astNamedType("a"))>>))

InitP ==
    /\ module \in {<<ParamTypeDef, fd>> : fd \in ParamFuncs("f")}
                 \cup {<<ParamTypeDef, fd, gd>> :
                          fd \in ParamFuncs("f"), gd \in ParamFuncs("g")}
    /\ InitGen

\* The whole translation on modules of functions with parameters.
SpecP == InitP /\ [][NextG]_vars

(***************************************************************************)
(* Reading the source text of a module, for the properties below.          *)
(***************************************************************************)
TypeDefKinds == {"TypeDef"}
GlobalKinds == {"GlobalDecl", "GlobalDef"}
FuncKinds == {"FuncDecl", "FuncDef"}
EntityName(entity) == IF entity.kind = "TypeDef" THEN entity.alias ELSE entity.name
PositionsOf(m, kinds) == {i \in DOMAIN m : m[i].kind \in kinds}
NamesOf(m, kinds) == {EntityName(m[i]) : i \in PositionsOf(m, kinds)}
PositionsNamed(m, kinds, n) == {i \in PositionsOf(m, kinds) : EntityName(m[i]) = n}
Least(S) == CHOOSE i \in S : \A j \in S : i <= j
Greatest(S) == CHOOSE i \in S : \A j \in S : j <= i
FirstOccurrence(m, kinds, n) == Least(PositionsNamed(m, kinds, n))
\* Place of name n among the names of these kinds, by first occurrence.
Rank(m, kinds, n) ==
    1 + Cardinality({n2 \in NamesOf(m, kinds) :
                        FirstOccurrence(m, kinds, n2) < FirstOccurrence(m, kinds, n)})
\* list holds one entry per name, the value the table has for it, at the
\* place of the first occurrence of the name.
InFirstOccurrenceOrder(list, m, kinds, table) ==
    /\ Len(list) = Cardinality(NamesOf(m, kinds))
    /\ \A n \in NamesOf(m, kinds) :
          n \in DOMAIN table /\ list[Rank(m, kinds, n)] = table[n]

\* The IR type v is the translation of the AST type old: same shape, every
\* named type the node the table tbl holds for the name.
RECURSIVE Denotes(_, _, _)
DenotesAll(vs, olds, tbl) ==
    /\ Len(vs) = Len(olds)
    /\ \A i \in DOMAIN olds : Denotes(vs[i], olds[i], tbl)
Denotes(v, old, tbl) ==
    CASE old.k = "IntType" -> v.k = "IntType" /\ v.BitSize = old.bits
      [] old.k = "NamedType" -> old.name \in DOMAIN tbl /\ v = Ref(tbl[old.name])
      [] old.k = "PointerType" ->
            v.k = "PointerType" /\ Denotes(v.ElemType, old.elem, tbl)
      [] old.k = "StructType" ->
            /\ v.k = "StructType" /\ ~v.Packed /\ ~v.Opaque
            /\ DenotesAll(v.Fields, old.fields, tbl)
      [] old.k = "PackedStructType" ->
            /\ v.k = "StructType" /\ v.Packed /\ ~v.Opaque
            /\ DenotesAll(v.Fields, old.fields, tbl)
      [] old.k = "FuncType" ->
            /\ v.k = "FuncType" /\ Denotes(v.RetType, old.ret, tbl)
            /\ DenotesAll(v.Params, old.params, tbl)
      [] old.k = "OpaqueType" -> v.k = "StructType" /\ v.Opaque /\ v.Fields = <<>>
      [] OTHER -> FALSE

\* Positions at which resolveGlobals has finished its index loop.
GsAfterIndex ==
    {"gs_skeleton", "gs_fill", "gs_assemble", "gs_done", "gs_failed", "gs_panic"}

(***************************************************************************)
(* C1.  When resolution succeeds on a module with N distinct type names,   *)
(* M globals and K functions, m.TypeDefs, m.Globals and m.Funcs have N, M  *)
(* and K entries, each the value registered for the name whose first       *)
(* occurrence has that place in the source; m.Globals holds only global    *)
(* variables and m.Funcs only functions.  It holds on every path, that     *)
(* is for every iteration order of the maps.                               *)
(***************************************************************************)
C1_ListsInFirstOccurrenceOrder ==
    pc = "gs_done" =>
        /\ InFirstOccurrenceOrder(TypeDefs, module, TypeDefKinds, ts)
        /\ InFirstOccurrenceOrder(Globals, module, GlobalKinds, gs)
        /\ InFirstOccurrenceOrder(Funcs, module, FuncKinds, gs)
        /\ Len(Globals) = Cardinality(PositionsOf(module, GlobalKinds))
        /\ Len(Funcs) = Cardinality(PositionsOf(module, FuncKinds))
        /\ \A i \in DOMAIN Globals : gheap[Globals[i]].k = "Global"
        /\ \A i \in DOMAIN Funcs : gheap[Funcs[i]].k = "Function"

\* A module of two functions and a global between them is resolved.
C1_Witness ==
    /\ pc = "gs_done"
    /\ Len(Funcs) = 2 /\ Len(Globals) = 1
    /\ module[2].kind \in GlobalKinds

(***************************************************************************)
(* C2.  A type name T defined as opaque and then once more with a concrete *)
(* body gives no duplicate-definition error for T; when resolveTypeDefs    *)
(* succeeds, the one node of T has the kind and the body of the later      *)
(* definition and is not opaque, and T is in m.TypeDefs once, at the place *)
(* of its first (opaque) occurrence.                                       *)
(***************************************************************************)
OpaqueThenConcrete(m, T) ==
    /\ Cardinality(PositionsNamed(m, TypeDefKinds, T)) = 2
    /\ m[Least(PositionsNamed(m, TypeDefKinds, T))].typ.k = "OpaqueType"
    /\ m[Greatest(PositionsNamed(m, TypeDefKinds, T))].typ.k
            \notin {"OpaqueType", "NamedType"}

C2_OpaqueThenConcrete ==
    \A T \in TypeAliases :
        OpaqueThenConcrete(module, T) =>
            /\ ~(err.e = "duplicate_type" /\ err.name = T)
            /\ pc = "ts_done" =>
                /\ Denotes(heap[ts[T]],
                           module[Greatest(PositionsNamed(module, TypeDefKinds, T))].typ,
                           ts)
                /\ ~heap[ts[T]].Opaque
                /\ Len(TypeDefs) = Cardinality(NamesOf(module, TypeDefKinds))
                /\ TypeDefs[Rank(module, TypeDefKinds, T)] = ts[T]
                /\ Cardinality({i \in DOMAIN TypeDefs : TypeDefs[i] = ts[T]}) = 1

\* %a opaque, then %b, then %a with a struct body: resolved.
C2_Witness ==
    /\ pc = "ts_done"
    /\ Len(module) = 3
    /\ OpaqueThenConcrete(module, "a")
    /\ module[2].alias = "b"
    /\ module[3].typ.k = "StructType"
    /\ TypeDefs = <<ts["a"], ts["b"]>>

(***************************************************************************)
(* C3.  When a global or function name occurs in more than one top-level   *)
(* entity (whatever the two kinds), resolveGlobals fails with the          *)
(* duplicate-definition error for the first repeating entity in source     *)
(* order, carrying the name and the text of the previous and of the new    *)
(* entity, and no skeleton has been created.                               *)
(***************************************************************************)
ValueKinds == GlobalKinds \cup FuncKinds
RepeatPositions(m) ==
    {j \in PositionsOf(m, ValueKinds) :
        \E i \in PositionsOf(m, ValueKinds) : i < j /\ m[i].name = m[j].name}

C3_DuplicateGlobalRejected ==
    (pc \in GsAfterIndex /\ RepeatPositions(module) # {}) =>
        /\ pc = "gs_failed"
        /\ err = DuplicateGlobalError(
                    module[Least(RepeatPositions(module))].name,
                    module[FirstOccurrence(module, ValueKinds,
                              module[Least(RepeatPositions(module))].name)],
                    module[Least(RepeatPositions(module))])
        /\ gs = EmptyMap /\ gheap = <<>>
        /\ Globals = <<>> /\ Funcs = <<>>

\* A global variable declaration followed by a function of the same name.
C3_Witness ==
    /\ pc = "gs_failed"
    /\ err.e = "duplicate_global"
    /\ err.prev.kind = "GlobalDecl"
    /\ err.new.kind = "FuncDef"

(***************************************************************************)
(* Reading the type index, for the properties below.                       *)
(***************************************************************************)
\* resolveTypeDefs has finished its index loop without an error.
TypesIndexed ==
    pc # "resolveTypeDefs" /\ ~(pc = "ts_failed" /\ err.e = "duplicate_type")

\* The names one alias step away from the names of S.
AliasStep(idx, S) ==
    {idx[n].name : n \in {x \in S \cap DOMAIN idx : idx[x].k = "NamedType"}}
\* The names 1 to k alias steps away from the names of S.
RECURSIVE AliasReach(_, _, _)
AliasReach(idx, S, k) ==
    IF k = 0 THEN {}
    ELSE AliasStep(idx, S) \cup AliasReach(idx, AliasStep(idx, S), k - 1)
OnAliasCycle(idx, n) ==
    n \in DOMAIN idx /\ n \in AliasReach(idx, {n}, Cardinality(DOMAIN idx))
\* The cycle through n, for n on a cycle.
AliasCycleOf(idx, n) == AliasReach(idx, {n}, Cardinality(DOMAIN idx))
HasAliasCycle(idx) == \E n \in DOMAIN idx : OnAliasCycle(idx, n)

\* The type names an AST type refers to.
RECURSIVE TypeRefs(_)
TypeRefs(old) ==
    CASE old.k = "NamedType" -> {old.name}
      [] old.k = "PointerType" -> TypeRefs(old.elem)
      [] old.k \in {"StructType", "PackedStructType"} ->
            UNION {TypeRefs(old.fields[i]) : i \in DOMAIN old.fields}
      [] old.k = "FuncType" ->
            TypeRefs(old.ret) \cup UNION {TypeRefs(old.params[i]) : i \in DOMAIN old.params}
      [] OTHER -> {}
MissingTypeRefs(idx) == UNION {TypeRefs(idx[n]) : n \in DOMAIN idx} \ DOMAIN idx

PlaceOf(n) == CHOOSE k \in DOMAIN SortedTypeNames : SortedTypeNames[k] = n
IsSorted(names) ==
    \A i, j \in DOMAIN names : i < j => PlaceOf(names[i]) < PlaceOf(names[j])
NoDuplicates(seq) == \A i, j \in DOMAIN seq : seq[i] = seq[j] => i = j

(***************************************************************************)
(* C4.  When the indexed type definitions contain a cycle of bare aliases, *)
(* resolveTypeDefs fails with the cyclic-type-alias error: it reaches      *)
(* neither the fill phase nor a panic; for the two-name cycle A = B, B = A *)
(* the error names A and B.                                                *)
(***************************************************************************)
TwoNameCycle(idx, A, B) ==
    /\ A # B /\ A \in DOMAIN idx /\ B \in DOMAIN idx
    /\ idx[A] = astNamedType(B) /\ idx[B] = astNamedType(A)

C4_AliasCycleRejected ==
    (TypesIndexed /\ HasAliasCycle(index)) =>
        /\ pc \in {"ts_skeleton", "ts_failed"}
        /\ pc = "ts_failed" =>
            /\ err.e = "cyclic"
            /\ \A A, B \in TypeAliases :
                  TwoNameCycle(index, A, B) => {A, B} \subseteq Range(err.names)

(***************************************************************************)
(* C5.  The names the cyclic-type-alias error lists are the names of one   *)
(* alias cycle, and no other name, in sorted order.                        *)
(***************************************************************************)
C5_ErrorNamesExactlyTheCycle ==
    (pc = "ts_failed" /\ err.e = "cyclic") =>
        /\ IsSorted(err.names)
        /\ \E n \in DOMAIN index :
              OnAliasCycle(index, n) /\ Range(err.names) = AliasCycleOf(index, n)

(***************************************************************************)
(* C6.  When the named types refer to themselves and to each other only    *)
(* inside compound types (no definition is a bare alias, every name        *)
(* referred to is defined), resolveTypeDefs returns no error and does not  *)
(* panic, it can always take its next step until it has returned, and the  *)
(* fill loop fills every table entry once.                                 *)
(***************************************************************************)
CompoundOnly(idx) ==
    \A n \in DOMAIN idx :
        idx[n].k # "NamedType" /\ TypeRefs(idx[n]) \subseteq DOMAIN idx

C6_CompoundRecursionTerminates ==
    (TypesIndexed /\ CompoundOnly(index)) =>
        /\ pc \notin {"ts_failed", "ts_panic"}
        /\ err = NoErr
        /\ NoDuplicates(fillLog)
        /\ Len(fillLog) <= Cardinality(DOMAIN index)
        /\ pc \in {"ts_assemble", "ts_done"} => Range(fillLog) = DOMAIN index
        /\ pc \in {"ts_skeleton", "ts_fill", "ts_assemble"} => ENABLED NextT

\* Two structs, each holding a pointer to the other, are resolved.
C6_Witness ==
    /\ pc = "ts_done"
    /\ DOMAIN index = {"a", "b"}
    /\ index["a"] = astStructType(<<astPointerType(astNamedType("b"))>>)
    /\ index["b"] = astStructType(<<astPointerType(astNamedType("a"))>>)
    /\ heap[ts["a"]].Fields[1].ElemType = Ref(ts["b"])
    /\ heap[ts["b"]].Fields[1].ElemType = Ref(ts["a"])

(***************************************************************************)
(* C10.  When a type name is referred to that no type definition defines,  *)
(* resolveTypeDefs returns the unresolved-identifier error for such a      *)
(* name: it neither succeeds nor panics.  (Stated for indexes without an   *)
(* alias cycle, where no other error can come first.)                      *)
(***************************************************************************)
C10_MissingTypeIsRecoverableError ==
    (TypesIndexed /\ MissingTypeRefs(index) # {} /\ ~HasAliasCycle(index)) =>
        /\ pc \in {"ts_skeleton", "ts_fill", "ts_failed"}
        /\ pc = "ts_failed" =>
            err.e = "unresolved_type" /\ err.name \in MissingTypeRefs(index)

(***************************************************************************)
(* Reading the references among globals and functions, for the properties  *)
(* below.                                                                  *)
(***************************************************************************)
\* The names of globals and functions an entity refers to: the initializer
\* of a global definition, the callees of a function body.
GlobalRefs(entity) ==
    CASE entity.kind = "GlobalDef" ->
            IF entity.init.k = "GlobalIdent" THEN {entity.init.name} ELSE {}
      [] entity.kind = "FuncDef" ->
            {entity.body[i].callee : i \in DOMAIN entity.body} \ {""}
      [] OTHER -> {}
\* The type names the type of a global or function refers to.
ValueTypeRefs(entity) ==
    IF isGlobalEntity(entity) THEN TypeRefs(entity.contentType)
    ELSE IF isFuncEntity(entity)
    THEN TypeRefs(entity.header.ret)
         \cup UNION {TypeRefs(entity.header.params[i].typ) :
                        i \in DOMAIN entity.header.params}
    ELSE {}
\* Every value name is introduced once, and every name referred to exists.
WellFormedValues(m) ==
    /\ RepeatPositions(m) = {}
    /\ \A i \in PositionsOf(m, ValueKinds) :
          /\ GlobalRefs(m[i]) \subseteq NamesOf(m, ValueKinds)
          /\ ValueTypeRefs(m[i]) \subseteq NamesOf(m, TypeDefKinds)
\* Entity i refers to a value that entity j, later in the source, introduces.
ForwardRef(m, i, j) ==
    /\ i \in PositionsOf(m, ValueKinds) /\ j \in PositionsOf(m, ValueKinds)
    /\ i < j /\ EntityName(m[j]) \in GlobalRefs(m[i])
\* The entity emitted for value name n in the module's lists.
EmittedValue(m, n) ==
    IF n \in NamesOf(m, FuncKinds)
    THEN Funcs[Rank(m, FuncKinds, n)]
    ELSE Globals[Rank(m, GlobalKinds, n)]

(***************************************************************************)
(* C7.  A well-formed module in which a function body or a global          *)
(* initializer names a global or function introduced later in the source   *)
(* is resolved without error or panic on every path; every callee and      *)
(* every initializer that names a value is the entity emitted for that     *)
(* name in m.Funcs or m.Globals; m.Funcs is in source order.               *)
(***************************************************************************)
C7_ForwardReferenceResolves ==
    (/\ pc \in GsAfterIndex
     /\ WellFormedValues(module)
     /\ \E i, j \in DOMAIN module : ForwardRef(module, i, j)) =>
        /\ pc \notin {"gs_failed", "gs_panic"}
        /\ err = NoErr
        /\ pc = "gs_done" =>
            /\ \A i \in PositionsOf(module, {"FuncDef"}) :
                 /\ Len(gheap[gs[module[i].name]].Blocks) = Len(module[i].body)
                 /\ \A b \in DOMAIN module[i].body :
                      module[i].body[b].callee # "" =>
                        gheap[gs[module[i].name]].Blocks[b].Callee
                            = GRef(EmittedValue(module, module[i].body[b].callee))
            /\ \A i \in PositionsOf(module, {"GlobalDef"}) :
                 module[i].init.k = "GlobalIdent" =>
                    gheap[gs[module[i].name]].Init
                        = GRef(EmittedValue(module, module[i].init.name))
            /\ \A i, j \in PositionsOf(module, FuncKinds) :
                 i < j => \E k, l \in DOMAIN Funcs :
                            /\ k < l
                            /\ Funcs[k] = gs[module[i].name]
                            /\ Funcs[l] = gs[module[j].name]

\* @f calls @g, defined after it: both resolved, m.Funcs = [f, g].
C7_Witness ==
    /\ pc = "gs_done"
    /\ Len(module) = 2
    /\ module[1] = astFuncDef("f", astIntType, <<>>, entryBlock("g"))
    /\ module[2].kind = "FuncDef" /\ module[2].name = "g"
    /\ Funcs = <<gs["f"], gs["g"]>>
    /\ gheap[Funcs[1]].Blocks[1].Callee = GRef(Funcs[2])

(***************************************************************************)
(* C8.  Every call of irBasicBlock has one of three outcomes, decided by   *)
(* the local table it is called with: the unresolved-local error naming    *)
(* the label when the label is no key; the kind-mismatch error when the    *)
(* label is bound to a parameter or an instruction result; else the basic  *)
(* block bound to the label and no error.  The table after the call is the *)
(* table before it.                                                        *)
(***************************************************************************)
C8_IrBasicBlockOutcomes ==
    \A i \in DOMAIN lret :
        /\ lret[i].after = lret[i].before
        /\ lret[i].label \notin DOMAIN lret[i].before =>
              /\ lret[i].err = UnresolvedLocalError(lret[i].label)
              /\ lret[i].block = NilLocal
        /\ lret[i].label \in DOMAIN lret[i].before =>
              IF lret[i].before[lret[i].label].k = "BasicBlock"
              THEN /\ lret[i].err = NoErr
                   /\ lret[i].block = lret[i].before[lret[i].label]
              ELSE /\ lret[i].before[lret[i].label].k \in {"Param", "Inst"}
                   /\ lret[i].err.e = "invalid_basic_block_type"
                   /\ lret[i].block = NilLocal

\* A branch to a block, then a branch to the instruction result %r.
C8_Witness ==
    /\ pc = "gs_failed"
    /\ Len(lret) = 2
    /\ lret[1].err = NoErr /\ lret[1].block.k = "BasicBlock"
    /\ lret[2].label = "r" /\ "r" \in DOMAIN lret[2].before
    /\ lret[2].before["r"].k = "Inst"
    /\ lret[2].err.e = "invalid_basic_block_type"
    /\ ls = lret[2].before

\* A branch to a label the function does not have.
C8_UnresolvedLabel ==
    /\ pc = "gs_failed"
    /\ lret # <<>>
    /\ lret[Len(lret)].label \notin DOMAIN ls
    /\ err = UnresolvedLocalError(lret[Len(lret)].label)

\* A branch to the parameter %x.
C8_ParameterLabel ==
    /\ pc = "gs_failed"
    /\ lret # <<>>
    /\ lret[Len(lret)].label = "x" /\ "x" \in DOMAIN ls /\ ls["x"].k = "Param"
    /\ err.e = "invalid_basic_block_type"

(***************************************************************************)
(* C9.  After successful resolution each type name has one node of its     *)
(* own: every reference to a name, in a type body, in the content type of  *)
(* a global, in the signature or a parameter of a function, is the node    *)
(* the type table holds for the name, which is the node m.TypeDefs holds   *)
(* for it; and no step changes which node the table holds for a name.      *)
(***************************************************************************)
TypesResolved == pc = "ts_done" \/ pc \in GsAfterIndex

C9_TypeNodes ==
    TypesResolved =>
        /\ DOMAIN ts = DOMAIN index
        /\ \A n, n2 \in DOMAIN ts : ts[n] = ts[n2] => n = n2
        /\ InFirstOccurrenceOrder(TypeDefs, module, TypeDefKinds, ts)
        /\ \A n \in DOMAIN index :
              IF index[n].k = "NamedType"
              THEN astToIRTypeDef(heap[ts[n]], index[n], ts).ret
                      = Ref(ts[index[n].name])
              ELSE Denotes(heap[ts[n]], index[n], ts)

C9_ValueTypes ==
    pc = "gs_done" =>
        \A n \in DOMAIN gindex :
            IF isGlobalEntity(gindex[n])
            THEN /\ Denotes(gheap[gs[n]].ContentType, gindex[n].contentType, ts)
                 /\ Denotes(gheap[gs[n]].Typ.ElemType, gindex[n].contentType, ts)
            ELSE /\ Denotes(gheap[gs[n]].Sig.RetType, gindex[n].header.ret, ts)
                 /\ DenotesAll(gheap[gs[n]].Sig.Params,
                               paramTypes(gindex[n].header.params), ts)
                 /\ gheap[gs[n]].Typ.ElemType = gheap[gs[n]].Sig
                 /\ DenotesAll([i \in DOMAIN gheap[gs[n]].Params |->
                                    gheap[gs[n]].Params[i].Typ],
                               paramTypes(gindex[n].header.params), ts)

C9_TableEntryKept ==
    \A n \in DOMAIN ts :
        /\ n \in DOMAIN ts' /\ ts'[n] = ts[n]
        /\ ts[n] \in DOMAIN heap' /\ heap'[ts[n]].k = heap[ts[n]].k

C9_OneNodePerTypeName ==
    [](C9_TypeNodes /\ C9_ValueTypes) /\ [][C9_TableEntryKept]_vars

\* @f returns %a and takes a pointer to %a; %a is a struct that holds a
\* pointer to itself.
C9_Witness ==
    /\ pc = "gs_done"
    /\ "a" \in DOMAIN ts /\ "f" \in DOMAIN gs
    /\ index["a"].k = "StructType"
    /\ gindex["f"] = astFuncDef("f", astNamedType("a"),
                                <<astParam(astPointerType(astNamedType("a")), "x")>>,
                                entryBlock(""))
    /\ heap[ts["a"]].Fields[2].ElemType = Ref(ts["a"])
    /\ gheap[gs["f"]].Sig.RetType = Ref(ts["a"])
    /\ gheap[gs["f"]].Params[1].Typ.ElemType = Ref(ts["a"])
    /\ TypeDefs = <<ts["a"]>>

(***************************************************************************)
(* C11.  When resolveTypeDefs or resolveGlobals returns an error, it       *)
(* returns the nil table, the step that failed is the last step taken, and *)
(* m.TypeDefs, m.Globals and m.Funcs are what they were when the function  *)
(* was called.                                                             *)
(***************************************************************************)
ReturnedError == pc \in {"ts_failed", "gs_failed"}

C11_NoPartialResult ==
    /\ ReturnedError => tret = NilTable /\ err \notin {NoErr} /\ err.e # "panic"
    /\ pc = "ts_failed" => TypeDefs = <<>> /\ Globals = <<>> /\ Funcs = <<>>
    /\ pc = "gs_failed" =>
          /\ Globals = <<>> /\ Funcs = <<>>
          /\ TypeDefs = assembleTypeDefs(<<>>, order, ts)

C11_FailingStepIsLast ==
    /\ ~ReturnedError
    /\ ReturnedError' =>
          TypeDefs' = TypeDefs /\ Globals' = Globals /\ Funcs' = Funcs

C11_FailFast == []C11_NoPartialResult /\ [][C11_FailingStepIsLast]_vars

\* The fill loop of resolveGlobals fails on its second entity or later, with
\* skeletons in gen.gs and type definitions in the module.
C11_Witness ==
    /\ pc = "gs_failed"
    /\ Len(gfillLog) >= 2
    /\ DOMAIN gs # {}
    /\ TypeDefs # <<>>
    /\ tret = NilTable

(***************************************************************************)
(* A whole run of resolveTypeDefs on a new generator, the two `range`      *)
(* loops over index visiting the keys in the order keys.                   *)
(***************************************************************************)
runResult(tag, e, hp, tbl, defs, r) ==
    [tag |-> tag, err |-> e, heap |-> hp, ts |-> tbl, TypeDefs |-> defs, tret |-> r]

\* Lines 55-63, then the rest of the function.
RECURSIVE skeletonLoop(_, _, _, _, _, _)
RECURSIVE fillLoop(_, _, _, _, _, _)
skeletonLoop(keys, i, idx, ord, hp, tbl) ==
    IF i > Len(keys) THEN fillLoop(keys, 1, idx, ord, hp, tbl)
    ELSE With(newIRType(keys[i], idx[keys[i]], idx, {}), LAMBDA r :
            IF r.tag = "ok"
            THEN skeletonLoop(keys, i + 1, idx, ord, Append(hp, r.t),
                              MapSet(tbl, keys[i], Len(hp) + 1))
            ELSE runResult(r.tag, r.err, hp, tbl, <<>>,
                           IF r.tag = "error" THEN returnOnError(tbl)
                           ELSE NotReturned))

\* Lines 66-72, then the assembly of lines 75-79.
fillLoop(keys, i, idx, ord, hp, tbl) ==
    IF i > Len(keys)
    THEN runResult("ok", NoErr, hp, tbl, assembleTypeDefs(<<>>, ord, tbl),
                   tableValue(tbl))
    ELSE With(astToIRTypeDef(hp[tbl[keys[i]]], idx[keys[i]], tbl), LAMBDA r :
            IF r.tag = "ok"
            THEN fillLoop(keys, i + 1, idx, ord,
                          [hp EXCEPT ![tbl[keys[i]]] = r.self], tbl)
            ELSE runResult(r.tag, r.err, [hp EXCEPT ![tbl[keys[i]]] = r.self],
                           tbl, <<>>,
                           IF r.tag = "error" THEN returnOnError(tbl)
                           ELSE NotReturned))

\* The orders in which a `range` can visit the keys S.
KeyOrders(S) == {o \in [1..Cardinality(S) -> S] : Range(o) = S}

\* resolveTypeDefs on module m, the loops over index in the order keys.
resolveTypeDefsRun(m, keys) ==
    With(indexTypeDefs(m, 1, EmptyMap, {}, <<>>), LAMBDA r :
        IF r.err # NoErr
        THEN runResult("error", r.err, <<>>, EmptyMap, <<>>, returnOnError(EmptyMap))
        ELSE skeletonLoop(keys, 1, r.index, r.order, <<>>, EmptyMap))

(***************************************************************************)
(* The structure of a result, node identities left out: a reference to a   *)
(* named type is replaced by the name the table has the node under.        *)
(***************************************************************************)
NameOfNode(tbl, id) == CHOOSE n \in DOMAIN tbl : tbl[n] = id
RECURSIVE Structure(_, _)
Structure(v, tbl) ==
    IF v.k = "nil" THEN v
    ELSE IF v.k = "ref" THEN [k |-> "named", name |-> NameOfNode(tbl, v.id)]
    ELSE [v EXCEPT !.Fields = [i \in DOMAIN v.Fields |-> Structure(v.Fields[i], tbl)],
                   !.Params = [i \in DOMAIN v.Params |-> Structure(v.Params[i], tbl)],
                   !.ElemType = Structure(v.ElemType, tbl),
                   !.RetType = Structure(v.RetType, tbl)]
\* What a run gave: how it ended, the table returned and m.TypeDefs.
ResultStructure(tag, r, hp, defs) ==
    [tag |-> tag,
     table |-> IF r.k = "table"
               THEN [n \in DOMAIN r.table |-> Structure(hp[r.table[n]], r.table)]
               ELSE <<>>,
     returned |-> r.k,
     TypeDefs |-> IF r.k = "table"
                  THEN [i \in DOMAIN defs |-> NameOfNode(r.table, defs[i])]
                  ELSE defs]
\* How the run of this behaviour ended.
EndTag ==
    CASE pc = "ts_done" -> "ok" [] pc = "ts_failed" -> "error"
      [] pc = "ts_panic" -> "panic" [] OTHER -> "running"

NextDefinition(m, i, j) ==
    /\ i \in PositionsOf(m, TypeDefKinds) /\ j \in PositionsOf(m, TypeDefKinds)
    /\ i < j /\ m[i].alias = m[j].alias
    /\ \A k \in PositionsNamed(m, TypeDefKinds, m[i].alias) : ~(i < k /\ k < j)
\* The redefinition the claim allows.
OpaqueThenConcreteAt(m, i, j) ==
    m[i].typ = astOpaqueType /\ m[j].typ # astOpaqueType
\* The redefinitions the claim rejects, by the position of the later entity.
RejectedRedefinitions(m) ==
    {j \in DOMAIN m : \E i \in DOMAIN m :
        NextDefinition(m, i, j) /\ ~OpaqueThenConcreteAt(m, i, j)}

C13_OnlyOpaqueThenConcreteMerges ==
    (pc # "resolveTypeDefs" /\ RejectedRedefinitions(module) # {}) =>
        /\ pc = "ts_failed"
        /\ err.e = "duplicate_type"
        /\ err.name = module[Least(RejectedRedefinitions(module))].alias
        /\ err.new = module[Least(RejectedRedefinitions(module))].typ
        /\ \E i \in DOMAIN module :
              /\ NextDefinition(module, i, Least(RejectedRedefinitions(module)))
              /\ err.prev = module[i].typ

(***************************************************************************)
(* C14.  No fill step of resolveTypeDefs runs before gen.ts holds a        *)
(* skeleton for every name of its index, and no fill step of               *)
(* resolveGlobals (so no resolution of a function body) runs before gen.gs *)
(* holds a skeleton for every name of its index and resolveTypeDefs has    *)
(* returned; a fill step adds no key to either table.                      *)
(***************************************************************************)
C14_TablesCompleteInFill ==
    /\ (pc = "ts_fill" \/ fillLog # <<>>) => DOMAIN ts = DOMAIN index
    /\ (pc = "gs_fill" \/ gfillLog # <<>>) =>
          /\ DOMAIN gs = DOMAIN gindex
          /\ DOMAIN ts = DOMAIN index
          /\ Range(fillLog) = DOMAIN index

C14_FillStepSeesAllKeys ==
    /\ fillLog' # fillLog =>
          /\ pc = "ts_fill" /\ DOMAIN ts = DOMAIN index /\ ts' = ts
    /\ (gfillLog' # gfillLog \/ ls' # ls \/ lret' # lret) =>
          /\ pc = "gs_fill" /\ DOMAIN gs = DOMAIN gindex /\ gs' = gs
          /\ DOMAIN ts = DOMAIN index /\ ts' = ts

C14_TwoPhaseOrdering == []C14_TablesCompleteInFill /\ [][C14_FillStepSeesAllKeys]_vars

\* The first fill step of resolveGlobals has resolved the body of a function
\* that calls the other value of the module, not filled yet.
C14_Witness ==
    /\ pc = "gs_fill"
    /\ Len(gfillLog) = 1
    /\ Cardinality(DOMAIN gindex) = 2
    /\ DOMAIN index # {}
    /\ gindex[gfillLog[1]].kind = "FuncDef"
    /\ gindex[gfillLog[1]].body[1].callee \in DOMAIN gs \ {gfillLog[1]}

(***************************************************************************)
(* C15.  After a successful resolveTypeDefs the node of every name holds   *)
(* the content of the concrete definition the name stands for: its own     *)
(* definition, or for a bare alias the definition its alias chain ends in. *)
(***************************************************************************)
\* The name whose definition is the end of the alias chain of n, at most k
\* aliases away.
RECURSIVE ChainEnd(_, _, _)
ChainEnd(idx, n, k) ==
    IF k = 0 \/ n \notin DOMAIN idx \/ idx[n].k # "NamedType" THEN n
    ELSE ChainEnd(idx, idx[n].name, k - 1)
ConcreteNameOf(idx, n) == ChainEnd(idx, n, Cardinality(DOMAIN idx))

C15_NoUnfilledSkeleton ==
    pc = "ts_done" =>
        \A n \in DOMAIN index :
            /\ ConcreteNameOf(index, n) \in DOMAIN index
            /\ Denotes(heap[ts[n]], index[ConcreteNameOf(index, n)], ts)
            /\ [heap[ts[n]] EXCEPT !.Alias = ""]
                  = [heap[ts[ConcreteNameOf(index, n)]] EXCEPT !.Alias = ""]

(***************************************************************************)
(* C16.  Once the skeleton phase of resolveTypeDefs has ended, the node    *)
(* gen.ts holds for name N carries the alias N; the alias tags of          *)
(* m.TypeDefs are the names in first-occurrence order, each once.          *)
(***************************************************************************)
C16_NodeTaggedWithItsName ==
    /\ pc \in {"ts_fill", "ts_assemble", "ts_done"} =>
          \A n \in DOMAIN index : n \in DOMAIN ts /\ heap[ts[n]].Alias = n
    /\ pc = "ts_done" =>
          /\ [i \in DOMAIN TypeDefs |-> heap[TypeDefs[i]].Alias] = order
          /\ NoDuplicates(order)

(***************************************************************************)
(* C17.  At every fill step the skeleton handed to the fill routine has    *)
(* the kind the routine asserts for the raw node, and at assembly every    *)
(* name of globalOrder is a global variable of gen.gs and every name of    *)
(* funcOrder a function of gen.gs; no 'invalid IR type' panic and no       *)
(* assembly panic is ever reached.                                         *)
(***************************************************************************)
\* The type the fill routine of an AST type asserts its skeleton to have
\* (`t.(*types.K)`); the routine of a named type asserts none.
AssertedTypeKind(old) ==
    CASE old.k \in {"OpaqueType", "StructType", "PackedStructType"} -> {"StructType"}
      [] old.k = "IntType" -> {"IntType"}
      [] old.k = "PointerType" -> {"PointerType"}
      [] old.k = "FuncType" -> {"FuncType"}
      [] OTHER -> {"StructType", "IntType", "PointerType", "FuncType"}
\* `g.(*ir.Global)` / `g.(*ir.Function)`
AssertedValueKind(old) ==
    IF old.kind \in GlobalKinds THEN "Global" ELSE "Function"
KindMismatchPanics ==
    {"invalid IR type", "invalid IR type for AST global",
     "unable to locate global identifier"}

C17_NoKindMismatch ==
    /\ err.e = "panic" => err.msg \notin KindMismatchPanics
    /\ pc = "ts_fill" =>
          \A n \in DOMAIN index : heap[ts[n]].k \in AssertedTypeKind(index[n])
    /\ pc = "gs_fill" =>
          \A n \in DOMAIN gindex : gheap[gs[n]].k = AssertedValueKind(gindex[n])
    /\ pc = "gs_assemble" =>
          /\ \A i \in DOMAIN globalOrder :
                /\ globalOrder[i] \in DOMAIN gs
                /\ gheap[gs[globalOrder[i]]].k = "Global"
          /\ \A i \in DOMAIN funcOrder :
                /\ funcOrder[i] \in DOMAIN gs
                /\ gheap[gs[funcOrder[i]]].k = "Function"

\* An opaque type, a global variable and a function have been filled and
\* assembled.
C17_Witness ==
    /\ pc = "gs_done"
    /\ DOMAIN index = {"a"} /\ index["a"] = astOpaqueType
    /\ heap[ts["a"]].Opaque
    /\ Len(Globals) = 1 /\ Len(Funcs) = 1

(***************************************************************************)
(* C18.  Once the skeleton loop of resolveGlobals has ended, every global  *)
(* variable has its content type and, as its type, the pointer to the      *)
(* content type in the declared address space, and every function its      *)
(* signature and the pointer to it in the declared address space: the      *)
(* type a fill step can observe is the final one.                          *)
(***************************************************************************)
C18_TypesCompleteAfterSkeleton ==
    pc \in {"gs_fill", "gs_assemble", "gs_done"} =>
        \A n \in DOMAIN gindex :
            /\ gheap[gs[n]].Typ.k = "PointerType"
            /\ IF isGlobalEntity(gindex[n])
               THEN /\ Denotes(gheap[gs[n]].ContentType, gindex[n].contentType, ts)
                    /\ gheap[gs[n]].Typ.ElemType = gheap[gs[n]].ContentType
                    /\ gheap[gs[n]].Typ.AddrSpace = gindex[n].addrSpace
               ELSE /\ Denotes(gheap[gs[n]].Sig.RetType, gindex[n].header.ret, ts)
                    /\ DenotesAll(gheap[gs[n]].Sig.Params,
                                  paramTypes(gindex[n].header.params), ts)
                    /\ gheap[gs[n]].Typ.ElemType = gheap[gs[n]].Sig
                    /\ gheap[gs[n]].Typ.AddrSpace = gindex[n].header.addrSpace


(***************************************************************************)
(* C19.  After a successful resolveTypeDefs, the node of every name whose  *)
(* retained definition is a struct (packed or not) has as many fields as   *)
(* the definition, the i-th field denoting the i-th declared field, also   *)
(* when an opaque definition of the name came first; the node of every     *)
(* name whose retained definition is a function type has the declared      *)
(* return type and parameter types in order; and the fill loop has         *)
(* visited every table entry exactly once.                                 *)
(***************************************************************************)
IsStructDef(old) == old.k \in {"StructType", "PackedStructType"}

C19_FieldsInDeclarationOrder ==
    pc = "ts_done" =>
        /\ \A n \in DOMAIN index :
            /\ IsStructDef(index[n]) =>
                /\ heap[ts[n]].k = "StructType"
                /\ Len(heap[ts[n]].Fields) = Len(index[n].fields)
                /\ \A i \in DOMAIN index[n].fields :
                       Denotes(heap[ts[n]].Fields[i], index[n].fields[i], ts)
            /\ index[n].k = "FuncType" =>
                /\ heap[ts[n]].k = "FuncType"
                /\ Denotes(heap[ts[n]].RetType, index[n].ret, ts)
                /\ Len(heap[ts[n]].Params) = Len(index[n].params)
                /\ \A i \in DOMAIN index[n].params :
                       Denotes(heap[ts[n]].Params[i], index[n].params[i], ts)
        /\ NoDuplicates(fillLog)
        /\ Range(fillLog) = DOMAIN ts

\* A module that defines "a" as opaque and then as a packed struct of two
\* different fields, and "b" as a function type of two different parameters.
C19_Witness ==
    /\ pc = "ts_done"
    /\ module = <<astTypeDef("a", astOpaqueType),
                  astTypeDef("a", astPackedStructType(<<astIntType, astNamedType("b")>>)),
                  astTypeDef("b", astFuncType(astIntType, <<astNamedType("a"), astIntType>>))>>
    /\ Len(heap[ts["a"]].Fields) = 2
    /\ Len(heap[ts["b"]].Params) = 2


(***************************************************************************)
(* C20.  Local names are scoped to one function.  Every call of            *)
(* irBasicBlock made while a function definition is filled looks the label *)
(* up in a table that holds the parameters, block labels and instruction   *)
(* results of that function and nothing else: a name only another function *)
(* registered is answered with UnresolvedLocalError, and a block that is   *)
(* returned is a block of the function being filled.  A fill step adds or  *)
(* removes no key of the type table or of the global table.                *)
(***************************************************************************)
LocalNamesOf(old) ==
    ({old.header.params[i].name : i \in DOMAIN old.header.params} \ {""})
    \cup {old.body[i].name : i \in DOMAIN old.body}
    \cup {old.body[p[1]].results[p[2]] : p \in resultPositions(old.body)}

FilledDefs == {i \in DOMAIN gfillLog : gindex[gfillLog[i]].kind = "FuncDef"}
\* The definition of the function definition filled last.
LastFilledDef == gindex[gfillLog[Greatest(FilledDefs)]]

C20_LookupInOwnTable ==
    FilledDefs # {} =>
        \A i \in DOMAIN lret :
            /\ DOMAIN lret[i].before = LocalNamesOf(LastFilledDef)
            /\ DOMAIN lret[i].after = LocalNamesOf(LastFilledDef)
            /\ lret[i].label \notin LocalNamesOf(LastFilledDef) =>
                  /\ lret[i].err = UnresolvedLocalError(lret[i].label)
                  /\ lret[i].block = NilLocal
            /\ lret[i].block # NilLocal =>
                  \E j \in DOMAIN LastFilledDef.body :
                      /\ LastFilledDef.body[j].name = lret[i].label
                      /\ lret[i].block = localBlock(j, lret[i].label)

C20_FillKeepsSharedKeys ==
    pc = "gs_fill" => DOMAIN ts' = DOMAIN ts /\ DOMAIN gs' = DOMAIN gs

C20_LocalsScopedToOneFunction ==
    []C20_LookupInOwnTable /\ [][C20_FillKeepsSharedKeys]_vars

\* Both functions are filled, the one filled second branches to a label that
\* only the one filled first has, and the lookup fails.
C20_Witness ==
    /\ Len(gfillLog) = 2
    /\ gindex[gfillLog[1]].kind = "FuncDef" /\ gindex[gfillLog[2]].kind = "FuncDef"
    /\ lret # <<>>
    /\ lret[Len(lret)].label \in LocalNamesOf(gindex[gfillLog[1]])
                                  \ LocalNamesOf(gindex[gfillLog[2]])
    /\ gindex[gfillLog[1]].body[1].name = lret[Len(lret)].label
    /\ lret[Len(lret)].err = UnresolvedLocalError(lret[Len(lret)].label)
    /\ pc = "gs_failed"


(***************************************************************************)
(* C21.  Within one function body every basic-block name is in the local   *)
(* table before any operand is resolved: each call of irBasicBlock finds   *)
(* the labels of all blocks of the function being filled in the table, and *)
(* a call for the label of a block of the function, declared earlier or    *)
(* later than the branch, returns the entity registered for that block     *)
(* and no error.                                                           *)
(***************************************************************************)
BlockNamesOf(old) == {old.body[j].name : j \in DOMAIN old.body}
BlockPlace(old, label) == CHOOSE j \in DOMAIN old.body : old.body[j].name = label
\* Labels that name a block and no parameter or instruction result.
PlainLabels(old) ==
    BlockNamesOf(old)
    \ (({old.header.params[i].name : i \in DOMAIN old.header.params})
       \cup {old.body[p[1]].results[p[2]] : p \in resultPositions(old.body)})

C21_BlocksRegisteredFirst ==
    FilledDefs # {} =>
        \A i \in DOMAIN lret :
            /\ BlockNamesOf(LastFilledDef) \subseteq DOMAIN lret[i].before
            /\ lret[i].label \in PlainLabels(LastFilledDef) =>
                  /\ lret[i].err = NoErr
                  /\ lret[i].block =
                        localBlock(BlockPlace(LastFilledDef, lret[i].label),
                                   lret[i].label)

\* The first block of @f branches to the second, declared after it, and the
\* branch is resolved to the second block.
C21_Witness ==
    /\ pc = "gs_done"
    /\ "f" \in DOMAIN gindex /\ gindex["f"].kind = "FuncDef"
    /\ Len(gindex["f"].body) >= 2
    /\ gindex["f"].body[1].target = gindex["f"].body[2].name
    /\ lret # <<>>
    /\ lret[1].label = gindex["f"].body[2].name
    /\ lret[1].block = localBlock(2, lret[1].label)
    /\ lret[1].err = NoErr


(***************************************************************************)
(* C22.  The outcome does not depend on the order in which the `range`     *)
(* loops visit the index: however resolveTypeDefs ended on a module, a run *)
(* on the same module with any order of the keys ends in the same class    *)
(* (success, returned error or panic) and, on success, with a table and a  *)
(* type-definition list of the same structure.                             *)
(***************************************************************************)
C22_SameOutcomeInEveryOrder ==
    EndTag # "running" =>
        \A keys \in KeyOrders(DOMAIN index) :
            With(resolveTypeDefsRun(module, keys), LAMBDA r2 :
                /\ r2.tag = EndTag
                /\ EndTag = "ok" =>
                      ResultStructure(r2.tag, r2.tret, r2.heap, r2.TypeDefs)
                          = ResultStructure(EndTag, tret, heap, TypeDefs))


(***************************************************************************)
(* C23.  After a successful resolveGlobals every function, declared or     *)
(* defined, has as many parameters as its signature has parameter types    *)
(* and as its header declares; the type of the i-th parameter equals the   *)
(* i-th parameter type of the signature and denotes the i-th declared      *)
(* type, a named type being the node of the type table; the i-th           *)
(* parameter has the i-th declared name; and every function was filled     *)
(* once, so no parameter appears twice.                                    *)
(***************************************************************************)
ParamsMatchSignature(f, hdr) ==
    /\ Len(f.Params) = Len(f.Sig.Params)
    /\ Len(f.Params) = Len(hdr.params)
    /\ \A i \in DOMAIN hdr.params :
        /\ f.Params[i].Typ = f.Sig.Params[i]
        /\ Denotes(f.Params[i].Typ, hdr.params[i].typ, ts)
        /\ f.Params[i].LocalName = hdr.params[i].name
        /\ hdr.params[i].typ.k = "NamedType" =>
              f.Params[i].Typ = Ref(ts[hdr.params[i].typ.name])

C23_ParamsMatchSignature ==
    pc = "gs_done" =>
        /\ \A n \in DOMAIN gindex :
              isFuncEntity(gindex[n]) =>
                  ParamsMatchSignature(gheap[gs[n]], gindex[n].header)
        /\ NoDuplicates(gfillLog)
        /\ Range(gfillLog) = DOMAIN gs

\* @f is defined with the parameters (%a %x, i32) and @g declared with
\* (%a* %x, %a); both are resolved.
C23_Witness ==
    /\ pc = "gs_done"
    /\ DOMAIN gindex = {"f", "g"}
    /\ gindex["f"].kind = "FuncDef" /\ gindex["g"].kind = "FuncDecl"
    /\ paramTypes(gindex["f"].header.params) = <<astNamedType("a"), astIntType>>
    /\ paramTypes(gindex["g"].header.params)
          = <<astPointerType(astNamedType("a")), astNamedType("a")>>
    /\ Len(gheap[gs["f"]].Params) = 2
    /\ gheap[gs["f"]].Params[1].Typ = Ref(ts["a"])
    /\ gheap[gs["g"]].Params[2].Typ = Ref(ts["a"])
====
